---- MODULE Spec2Model ----
(***************************************************************************)
(* One execution of the Jenkins goal of atomist/sdm-pack-jenkins.          *)
(*                                                                         *)
(* The repository holds two revisions of the goal-execution routine:       *)
(*   "Jenkins"    src/lib/goal/Jenkins.ts   (jenkins / executeJenkins)     *)
(*   "jenkinsRun" src/unnamed/part_000      (jenkinsRun / executeJenkins)  *)
(* The variable variant says    which of the two files is executing.        *)
(*                                                                         *)
(* JavaScript undefined is the string "undefined" for string values and  *)
(* the empty sequence << >> for optional values of other types.            *)
(***************************************************************************)
EXTENDS Integers, Sequences, FiniteSets, TLC

\* ---------------------------------------------------------------- bounds
\* Largest number of queue-item lookups one execution issues in the model.
MaxPolls == 3
\* Largest number of data/error events the log stream delivers before end.
MaxLogEvents == 2

\* ------------------------------------------------------------- the inputs
Variants == {"Jenkins", "jenkinsRun"}

\* The invocation context: gi.goalEvent and gi.context.
GoalEvent ==
    [repo |-> [owner |-> "atomist", name |-> "app"], sha |-> "abc123", branch |-> "master"]
WorkspaceId == "T29E48P34"

Absent == [kind |-> "absent", value |-> "undefined"]

\* registration.job: absent, a static string, or a JenkinsJobName function.
JobOptions ==
    {Absent, [kind |-> "string", value |-> "deploy"], [kind |-> "string", value |-> ""],
     [kind |-> "function", value |-> "undefined"]}
\* What a JenkinsJobName function may resolve to ("reject" is a rejected promise).
JobFunctionResults == {"app-build", "undefined", "", "reject"}

\* registration.parameters: absent, a static record, or a function.
ParameterOptions ==
    {Absent, [kind |-> "object", value |-> "{branch:master}"], [kind |-> "function", value |-> "undefined"]}
ParameterFunctionResults == {"{sha:abc123}", "undefined", "reject"}

\* registration.definition: absent, a static document, or a function.
DefinitionOptions ==
    {Absent, [kind |-> "string", value |-> "<project/>"], [kind |-> "function", value |-> "undefined"]}
DefinitionFunctionResults == {"<flow-definition/>", "reject"}

\* registration.convergeOnly is an optional boolean.
ConvergeOnlyOptions == {"true", "false", "undefined"}

NoServer == [url |-> "undefined", user |-> "undefined", password |-> "undefined"]
RegistrationServers ==
    {NoServer, [url |-> "http://reg:8080", user |-> "reg-admin", password |-> "reg-secret"]}
ConfigurationServers ==
    {NoServer, [url |-> "http://cfg:8080", user |-> "undefined", password |-> "cfg-secret"]}

Registrations ==
    [job : JobOptions, convergeOnly : ConvergeOnlyOptions, parameters : ParameterOptions,
     definition : DefinitionOptions, server : RegistrationServers]

\* The names a job can have in the model, and the remote job sets at the start.
JobNames == {"app", "deploy", "app-build", "undefined", ""}
InitialJobs == {{}, JobNames}

\* Acknowledgments of js.job.build: a queue id, or no number at all.
Acks == {"42", "NaN", "undefined"}

\* Answers of js.queue.item: no item, an item with no executable, an item whose
\* executable has no build number yet (number 0), and a running build.
NoItem == [item |-> FALSE, executable |-> FALSE, number |-> 0, url |-> "undefined"]
QueueItems ==
    {NoItem,
     [item |-> TRUE, executable |-> FALSE, number |-> 0, url |-> "undefined"],
     [item |-> TRUE, executable |-> TRUE, number |-> 0, url |-> "undefined"],
     [item |-> TRUE, executable |-> TRUE, number |-> 7, url |-> "http://jenkins/job/7/"]}

\* result.result of js.build.get; "undefined" is a record with no result.
ResultCodes == {"SUCCESS", "ABORTED", "FAILURE", "UNSTABLE", "NOT_BUILT", "undefined"}
ResultUrl == "http://jenkins/job/7/console"

\* The console log of the build, chunk by chunk: the stream delivers it in order.
LogLines == <<"Started by user admin", "[Pipeline] { (Build)", "[Pipeline] }", "Finished">>
LogTexts == {LogLines[i] : i \in DOMAIN LogLines}
LogErrors == {"ECONNRESET"}

VARIABLES
    variant,          \* which goal-execution file runs
    registration,     \* JenkinsRegistration
    configuration,    \* _.get(configuration, "sdm.jenkins")
    jobs,             \* the job names that exist on the remote job server
    pc,               \* position of the execution
    server,           \* merged server configuration
    jobName, parameters, definition,
    goalDescription,  \* goalEvent.description
    build,            \* acknowledgment of js.job.build
    polls,            \* queue-item lookups issued
    item,             \* Build Reference: << >> or <<[id, url]>>
    logEvents,        \* data/error events delivered by the log stream
    result,           \* js.build.get: << >> or <<[result, url]>>
    status, state,    \* the Outcome Mapper's locals
    calls,            \* remote calls issued, in order
    sink,             \* progressLog writes, in order
    reports,          \* documents passed to postWebhook, in order
    clock,            \* the wall clock read by new Date()
    ret,              \* the ExecuteGoalResult returned: << >> or <<result>>
    error,            \* the error the execution threw, "" if none
    invoked,          \* invocations of the registration's functions, in order
    exists,           \* createOrUpdateJob's local: the answer of js.job.exists
    queued,           \* triggerJob's local item: the last answer of js.queue.item
    deferred,         \* the Deferred awaited for the log stream's end
    delivered,        \* the events the log stream has emitted, in order
    peer              \* createOrUpdateJob of a second execution: [pc, exists, error]

vars ==
    <<variant, registration, configuration, jobs, pc, server, jobName, parameters, definition,
      goalDescription, build, polls, item, logEvents, result, status, state, calls, sink,
      reports, clock, ret, error, invoked, exists, queued, deferred, delivered, peer>>

\* ------------------------------------------------------------ the helpers
SdmGoalState == [success |-> "success", stopped |-> "stopped", failure |-> "failure"]

\* codeLine of @atomist/slack-messages wraps its text in a pair of backquotes;
\* the backquote character is written "(bq)".
codeLine(text) == <<"(bq)", text, "(bq)">>

Description(name, what) == <<"Jenkins ">> \o codeLine(name) \o <<" ", what>>

\* A block whose closing marker is not written.
Block_Unclosed(fmt, args) ==
    << [fmt |-> "/--", args |-> << >>], [fmt |-> fmt, args |-> args] >>

\* One framed block of the progress log.
Block(fmt, args) ==
    << [fmt |-> "/--", args |-> << >>], [fmt |-> fmt, args |-> args],
       [fmt |-> "\\--", args |-> << >>] >>

Digits == <<"1", "2", "3", "4", "5", "6", "7", "8", "9">>
NumStr(n) == IF n \in 1..9 THEN Digits[n] ELSE "0"

Call(op, name, id, ok) == [op |-> op, name |-> name, id |-> id, ok |-> ok]


\* _.merge({}, registration.server, _.get(configuration, "sdm.jenkins")): a later
\* source overwrites an earlier one wherever its own value is defined.
MergeField(target, source) == IF source # "undefined" THEN source ELSE target

merge(regServer, cfgServer) ==
    [url |-> MergeField(regServer.url, cfgServer.url),
     user |-> MergeField(regServer.user, cfgServer.user),
     password |-> MergeField(regServer.password, cfgServer.password)]

\* !server.url
NoUrl_Never(s) == FALSE

NoUrl(s) == s.url \in {"undefined", ""}

\* getJobName; resolved is what the JenkinsJobName function resolves to.
getJobName_IgnoresFunction(reg, gi, resolved) ==
    IF reg.job.kind = "string" /\ reg.job.value # "" THEN reg.job.value ELSE gi.repo.name

getJobName(reg, gi, resolved) ==
    IF reg.job.kind # "absent" /\ reg.job.value # ""
    THEN IF reg.job.kind = "string" THEN reg.job.value ELSE resolved
    ELSE gi.repo.name

\* getParameters; resolved is what the JenkinsJobParameters function resolves to.
getParameters(reg, resolved) ==
    IF reg.parameters.kind # "absent"
    THEN IF reg.parameters.kind = "function" THEN resolved ELSE reg.parameters.value
    ELSE "undefined"

\* parameters || {}
ParametersOrEmpty(p) == IF p = "undefined" THEN "{}" ELSE p

\* registration.convergeOnly !== true
StartsJob_Inverted(reg) == reg.convergeOnly = "true"

StartsJob(reg) == reg.convergeOnly # "true"

\* JavaScript isNaN on an acknowledgment.
isNaN(ack) == ack \in {"NaN", "undefined"}

\* triggerJob returns undefined on an acknowledgment that is no number: only the
\* routine of lib/goal/Jenkins.ts tests the acknowledgment.
AckDeclined(v, ack) == v = "Jenkins" /\ isNaN(ack)

\* The loop condition of triggerJob, negated: the item carries a build number.
IsRunning_IgnoresNumber(q) == q.item /\ q.executable

IsRunning(q) == q.item /\ q.executable /\ q.number # 0

\* What the remote queue can answer for an acknowledgment: a request that was
\* never queued has no item.
QueueAnswers(ack) == IF isNaN(ack) THEN {NoItem} ELSE QueueItems

\* The switch on result.result: status.
MapStatus_Swapped(code) ==
    CASE code = "SUCCESS" -> "passed"
      [] code = "ABORTED" -> "failed"
      [] code = "FAILURE" -> "canceled"
      [] OTHER -> "undefined"

MapStatus(code) ==
    CASE code = "SUCCESS" -> "passed"
      [] code = "ABORTED" -> "canceled"
      [] code = "FAILURE" -> "failed"
      [] OTHER -> "undefined"

\* The switch on result.result: state.
MapState_DefaultSuccess(code) ==
    CASE code = "ABORTED" -> SdmGoalState.stopped
      [] code = "FAILURE" -> SdmGoalState.failure
      [] OTHER -> SdmGoalState.success

MapState(code) ==
    CASE code = "SUCCESS" -> SdmGoalState.success
      [] code = "ABORTED" -> SdmGoalState.stopped
      [] code = "FAILURE" -> SdmGoalState.failure
      [] OTHER -> "undefined"

\* The document updateBuildStatus posts; now is new Date().
updateBuildStatus_BothStamps(st, sdmGoal, url, buildNo, team, now) ==
    [repository |-> [owner_name |-> sdmGoal.repo.owner, name |-> sdmGoal.repo.name],
     name |-> <<"Build #", NumStr(buildNo)>>,
     number |-> buildNo,
     type |-> "push",
     build_url |-> url,
     status |-> st,
     commit |-> sdmGoal.sha,
     branch |-> sdmGoal.branch,
     provider |-> "jenkins",
     started_at |-> <<now>>,
     finished_at |-> IF st # "started" THEN <<now>> ELSE << >>,
     team |-> team]

updateBuildStatus(st, sdmGoal, url, buildNo, team, now) ==
    [repository |-> [owner_name |-> sdmGoal.repo.owner, name |-> sdmGoal.repo.name],
     name |-> <<"Build #", NumStr(buildNo)>>,
     number |-> buildNo,
     type |-> "push",
     build_url |-> url,
     status |-> st,
     commit |-> sdmGoal.sha,
     branch |-> sdmGoal.branch,
     provider |-> "jenkins",
     started_at |-> IF st = "started" THEN <<now>> ELSE << >>,
     finished_at |-> IF st # "started" THEN <<now>> ELSE << >>,
     team |-> team]

\* The progress-log lines that differ between the two files.
NotUpdatingFmt(v) ==
    IF v = "Jenkins"
    THEN "Not updating definition of Jenkins job '%s' as no definition was provided."
    ELSE "Not updating definition of Jenkins job '%s'"

StartedFmt(v) ==
    IF v = "Jenkins"
    THEN "Jenkins job '%s' started with build id '%s'"
    ELSE "Jenkins job '%s' started with queue id '%s'"

\* A rejected promise: the error leaves executeJenkins, nothing is returned.
Throw(e) == pc' = "failed" /\ error' = e

\* No second execution runs.
PeerIdle == [pc |-> "off", exists |-> "undefined", error |-> ""]

\* The locals of an execution that has not run yet.
Fresh ==
    /\ pc = "start"
    /\ server = NoServer
    /\ jobName = "undefined"
    /\ parameters = "undefined"
    /\ definition = "undefined"
    /\ goalDescription = << >>
    /\ build = "undefined"
    /\ polls = 0
    /\ item = << >>
    /\ logEvents = 0
    /\ result = << >>
    /\ status = "undefined"
    /\ state = "undefined"
    /\ calls = << >>
    /\ sink = << >>
    /\ reports = << >>
    /\ clock = 0
    /\ ret = << >>
    /\ error = ""
    /\ invoked = << >>
    /\ exists = "undefined"
    /\ queued = NoItem
    /\ deferred = "none"
    /\ delivered = << >>

Init ==
    /\ variant \in Variants
    /\ registration \in Registrations
    /\ configuration \in ConfigurationServers
    /\ jobs \in InitialJobs
    /\ Fresh
    /\ peer = PeerIdle


\* ------------------------------------------------------------ the actions
inputs == <<variant, registration, configuration>>
resolved == <<server, jobName, parameters, definition, goalDescription>>
trigger == <<build, polls, item>>
outcome == <<result, status, state>>

\* executeJenkins, up to the Jenkins api instance: the server configuration.
ResolveServer ==
    /\ pc = "start"
    /\ server' = merge(registration.server, configuration)
    /\ IF NoUrl(server')
       THEN Throw("Jenkins server configuration incomplete")
       ELSE pc' = "getJobName" /\ error' = error
    /\ UNCHANGED <<invoked, exists, queued, deferred, delivered>>
    /\ UNCHANGED peer
    /\ UNCHANGED <<inputs, jobs, jobName, parameters, definition, goalDescription, trigger,
                   logEvents, outcome, calls, sink, reports, clock, ret>>

\* await getJobName(registration, gi)
GetJobName ==
    /\ pc = "getJobName"
    /\ \E r \in JobFunctionResults :
          /\ invoked' = IF registration.job.kind = "function"
                        THEN Append(invoked, [fn |-> "job", result |-> r]) ELSE invoked
          /\ IF registration.job.kind = "function" /\ r = "reject"
             THEN Throw("job") /\ jobName' = jobName
             ELSE /\ jobName' = getJobName(registration, GoalEvent, r)
                  /\ pc' = "getParameters"
                  /\ error' = error
    /\ UNCHANGED <<exists, queued, deferred, delivered>>
    /\ UNCHANGED peer
    /\ UNCHANGED <<inputs, jobs, server, parameters, definition, goalDescription, trigger,
                   logEvents, outcome, calls, sink, reports, clock, ret>>

\* await getParameters(registration, gi), then goalEvent.description.
GetParameters ==
    /\ pc = "getParameters"
    /\ \E r \in ParameterFunctionResults :
          /\ invoked' = IF registration.parameters.kind = "function"
                        THEN Append(invoked, [fn |-> "parameters", result |-> r]) ELSE invoked
          /\ IF registration.parameters.kind = "function" /\ r = "reject"
             THEN Throw("parameters") /\ UNCHANGED <<parameters, goalDescription>>
             ELSE /\ parameters' = getParameters(registration, r)
                  /\ goalDescription' = <<"Jenkins ">> \o codeLine(jobName)
                  /\ pc' = "createOrUpdateJob"
                  /\ error' = error
    /\ UNCHANGED <<exists, queued, deferred, delivered>>
    /\ UNCHANGED peer
    /\ UNCHANGED <<inputs, jobs, server, jobName, definition, trigger, logEvents, outcome,
                   calls, sink, reports, clock, ret>>

\* ResolveDefinition asking the server about the job whatever was registered.
ResolveDefinition_AlwaysChecks ==
    /\ pc = "createOrUpdateJob"
    /\ \E r \in DefinitionFunctionResults :
          /\ invoked' = IF registration.definition.kind = "function"
                        THEN Append(invoked, [fn |-> "definition", result |-> r])
                        ELSE invoked
          /\ IF registration.definition.kind = "function" /\ r = "reject"
             THEN Throw("definition") /\ UNCHANGED <<definition, sink>>
             ELSE /\ definition' = IF registration.definition.kind = "function"
                                   THEN r
                                   ELSE IF registration.definition.kind = "absent"
                                        THEN "undefined"
                                        ELSE registration.definition.value
                  /\ pc' = "exists"
                  /\ UNCHANGED <<sink, error>>
    /\ UNCHANGED <<exists, queued, deferred, delivered>>
    /\ UNCHANGED peer
    /\ UNCHANGED <<inputs, jobs, server, jobName, parameters, goalDescription, trigger,
                   logEvents, outcome, calls, reports, clock, ret>>

\* createOrUpdateJob, up to the existence check: the definition, if any.
ResolveDefinition ==
    /\ pc = "createOrUpdateJob"
    /\ IF registration.definition.kind = "absent"
       THEN /\ sink' = sink \o Block(NotUpdatingFmt(variant), <<jobName>>)
            /\ pc' = "convergeOnly"
            /\ UNCHANGED <<definition, error, invoked>>
       ELSE \E r \in DefinitionFunctionResults :
               /\ invoked' = IF registration.definition.kind = "function"
                             THEN Append(invoked, [fn |-> "definition", result |-> r])
                             ELSE invoked
               /\ IF registration.definition.kind = "function" /\ r = "reject"
                  THEN Throw("definition") /\ UNCHANGED <<definition, sink>>
                  ELSE /\ definition' = IF registration.definition.kind = "function"
                                        THEN r ELSE registration.definition.value
                       /\ pc' = "exists"
                       /\ UNCHANGED <<sink, error>>
    /\ UNCHANGED <<exists, queued, deferred, delivered>>
    /\ UNCHANGED peer
    /\ UNCHANGED <<inputs, jobs, server, jobName, parameters, goalDescription, trigger,
                   logEvents, outcome, calls, reports, clock, ret>>

\* What js.job.exists answers for a job name.
JobExistsAnswer(remote, name) == IF name \in remote THEN "true" ELSE "false"

\* Whether js.job.create can resolve: the server refuses a name that is taken.
CreateOutcomes(remote, name) == IF name \in remote THEN {FALSE} ELSE BOOLEAN

\* if (!!exists) js.job.config(...) else js.job.create(...)
ExistsBranch_Swapped(answer) == IF answer = "true" THEN "create" ELSE "config"

ExistsBranch(answer) == IF answer = "true" THEN "config" ELSE "create"

\* await js.job.exists(jobName)
JobExists ==
    /\ pc = "exists"
    /\ \E ok \in BOOLEAN :
          /\ calls' = Append(calls, Call("job.exists", jobName, "", ok))
          /\ IF ok
             THEN /\ exists' = JobExistsAnswer(jobs, jobName)
                  /\ pc' = ExistsBranch(exists')
                  /\ error' = error
             ELSE Throw("job.exists") /\ exists' = exists
    /\ UNCHANGED <<invoked, queued, deferred, delivered>>
    /\ UNCHANGED peer
    /\ UNCHANGED <<inputs, jobs, resolved, trigger, logEvents, outcome, sink, reports,
                   clock, ret>>

\* await js.job.config(jobName, definition), then the progress-log block.
JobConfig ==
    /\ pc = "config"
    /\ \E ok \in BOOLEAN :
          /\ calls' = Append(calls, Call("job.config", jobName, "", ok))
          /\ IF ok
             THEN /\ sink' = sink \o Block("Updating definition of Jenkins job '%s'", <<jobName>>)
                  /\ pc' = "convergeOnly"
                  /\ error' = error
             ELSE Throw("job.config") /\ sink' = sink
    /\ UNCHANGED <<invoked, exists, queued, deferred, delivered>>
    /\ UNCHANGED peer
    /\ UNCHANGED <<inputs, jobs, resolved, trigger, logEvents, outcome, reports, clock, ret>>

\* await js.job.create(jobName, definition), then the progress-log block.
JobCreate ==
    /\ pc = "create"
    /\ \E ok \in CreateOutcomes(jobs, jobName) :
          /\ calls' = Append(calls, Call("job.create", jobName, "", ok))
          /\ IF ok
             THEN /\ jobs' = jobs \union {jobName}
                  /\ sink' = sink \o Block("Updating definition of Jenkins job '%s'", <<jobName>>)
                  /\ pc' = "convergeOnly"
                  /\ error' = error
             ELSE Throw("job.create") /\ UNCHANGED <<jobs, sink>>
    /\ UNCHANGED <<invoked, exists, queued, deferred, delivered>>
    /\ UNCHANGED peer
    /\ UNCHANGED <<inputs, resolved, trigger, logEvents, outcome, reports, clock, ret>>

\* The else branch of registration.convergeOnly !== true.
NotStarting ==
    /\ pc = "convergeOnly"
    /\ ~StartsJob(registration)
    /\ sink' = sink \o Block("Not starting Jenkins job '%s'", <<jobName>>)
    /\ ret' = << [state |-> SdmGoalState.success,
                  description |-> Description(jobName, "converged"),
                  externalUrls |-> << >>] >>
    /\ pc' = "done"
    /\ UNCHANGED <<invoked, exists, queued, deferred, delivered>>
    /\ UNCHANGED peer
    /\ UNCHANGED <<inputs, jobs, resolved, trigger, logEvents, outcome, calls, reports,
                   clock, error>>

\* The then branch, up to the call of triggerJob.
Starting ==
    /\ pc = "convergeOnly"
    /\ StartsJob(registration)
    /\ sink' = sink \o Block("Starting Jenkins job '%s' with parameters '%j'",
                             <<jobName, ParametersOrEmpty(parameters)>>)
    /\ pc' = "build"
    /\ UNCHANGED <<invoked, exists, queued, deferred, delivered>>
    /\ UNCHANGED peer
    /\ UNCHANGED <<inputs, jobs, resolved, trigger, logEvents, outcome, calls, reports,
                   clock, ret, error>>

\* triggerJob: await js.job.build({ name: jobName, parameters })
JobBuild ==
    /\ pc = "build"
    /\ \E ack \in Acks \union {"reject"} :
          /\ calls' = Append(calls, Call("job.build", jobName, "", ack # "reject"))
          /\ IF ack = "reject"
             THEN Throw("job.build") /\ build' = build
             ELSE /\ build' = ack
                  /\ pc' = (IF AckDeclined(variant, ack) THEN "triggered" ELSE "poll")
                  /\ error' = error
    /\ UNCHANGED <<invoked, exists, queued, deferred, delivered>>
    /\ UNCHANGED peer
    /\ UNCHANGED <<inputs, jobs, resolved, polls, item, logEvents, outcome, sink, reports,
                   clock, ret>>

\* QueueItem with a loop that stops asking after its second unanswered lookup.
QueueItem_GivesUp ==
    /\ pc = "poll"
    /\ polls < MaxPolls
    /\ polls' = polls + 1
    /\ \E ok \in BOOLEAN, q \in QueueAnswers(build) :
          /\ calls' = Append(calls, Call("queue.item", "", build, ok))
          /\ IF ~ok
             THEN Throw("queue.item") /\ item' = item /\ queued' = queued
             ELSE /\ error' = error
                  /\ queued' = q
                  /\ IF IsRunning(q)
                     THEN item' = << [id |-> q.number, url |-> q.url] >> /\ pc' = "started"
                     ELSE item' = item /\ pc' = (IF polls >= 1 THEN "triggered" ELSE "poll")
    /\ UNCHANGED <<invoked, exists, deferred, delivered>>
    /\ UNCHANGED peer
    /\ UNCHANGED <<inputs, jobs, resolved, build, logEvents, outcome, sink, reports, clock,
                   ret>>

\* QueueItem with a failed lookup caught inside the loop and tried again.
QueueItem_Retries ==
    /\ pc = "poll"
    /\ polls < MaxPolls
    /\ polls' = polls + 1
    /\ \E ok \in BOOLEAN, q \in QueueAnswers(build) :
          /\ calls' = Append(calls, Call("queue.item", "", build, ok))
          /\ error' = error
          /\ IF ~ok
             THEN item' = item /\ queued' = queued /\ pc' = "poll"
             ELSE /\ queued' = q
                  /\ IF IsRunning(q)
                     THEN item' = << [id |-> q.number, url |-> q.url] >> /\ pc' = "started"
                     ELSE item' = item /\ pc' = "poll"
    /\ UNCHANGED <<invoked, exists, deferred, delivered>>
    /\ UNCHANGED peer
    /\ UNCHANGED <<inputs, jobs, resolved, build, logEvents, outcome, sink, reports, clock,
                   ret>>

\* triggerJob: one turn of the loop, js.queue.item(build) and sleep(500).
QueueItem ==
    /\ pc = "poll"
    /\ polls < MaxPolls
    /\ polls' = polls + 1
    /\ \E ok \in BOOLEAN, q \in QueueAnswers(build) :
          /\ calls' = Append(calls, Call("queue.item", "", build, ok))
          /\ IF ~ok
             THEN Throw("queue.item") /\ item' = item /\ queued' = queued
             ELSE /\ error' = error
                  /\ queued' = q
                  /\ IF IsRunning(q)
                     THEN item' = << [id |-> q.number, url |-> q.url] >> /\ pc' = "started"
                     ELSE item' = item /\ pc' = "poll"
    /\ UNCHANGED <<invoked, exists, deferred, delivered>>
    /\ UNCHANGED peer
    /\ UNCHANGED <<inputs, jobs, resolved, build, logEvents, outcome, sink, reports, clock,
                   ret>>

\* triggerJob returned undefined: the result of a job that was not queued.
ReturnTriggered ==
    /\ pc = "triggered"
    /\ ret' = << [state |-> SdmGoalState.success,
                  description |-> Description(jobName, "triggered"),
                  externalUrls |-> << >>] >>
    /\ pc' = "done"
    /\ UNCHANGED <<invoked, exists, queued, deferred, delivered>>
    /\ UNCHANGED peer
    /\ UNCHANGED <<inputs, jobs, resolved, trigger, logEvents, outcome, calls, sink, reports,
                   clock, error>>

\* AnnounceStarted with the started report left out.
AnnounceStarted_NoReport ==
    /\ pc = "started"
    /\ sink' = sink \o Block(StartedFmt(variant), <<jobName, NumStr(item[1].id)>>)
    /\ pc' = "logStream"
    /\ UNCHANGED <<invoked, exists, queued, deferred, delivered>>
    /\ UNCHANGED peer
    /\ UNCHANGED <<inputs, jobs, resolved, trigger, logEvents, outcome, calls, reports,
                   clock, ret, error>>

\* AnnounceStarted with a rejected webhook call caught and ignored.
AnnounceStarted_Swallow ==
    /\ pc = "started"
    /\ sink' = sink \o Block(StartedFmt(variant), <<jobName, NumStr(item[1].id)>>)
    /\ reports' = Append(reports, updateBuildStatus("started", GoalEvent, item[1].url,
                                                    item[1].id, WorkspaceId, clock))
    /\ clock' = clock + 1
    /\ \E ok \in BOOLEAN :
          calls' = Append(calls, Call("postWebhook", "", NumStr(item[1].id), ok))
    /\ pc' = "logStream"
    /\ UNCHANGED <<invoked, exists, queued, deferred, delivered>>
    /\ UNCHANGED peer
    /\ UNCHANGED <<inputs, jobs, resolved, trigger, logEvents, outcome, ret, error>>

\* The block announcing the build, and await updateBuildStatus("started", ...).
AnnounceStarted ==
    /\ pc = "started"
    /\ sink' = sink \o Block(StartedFmt(variant), <<jobName, NumStr(item[1].id)>>)
    /\ reports' = Append(reports, updateBuildStatus("started", GoalEvent, item[1].url,
                                                    item[1].id, WorkspaceId, clock))
    /\ clock' = clock + 1
    /\ \E ok \in BOOLEAN :
          /\ calls' = Append(calls, Call("postWebhook", "", NumStr(item[1].id), ok))
          /\ IF ok THEN pc' = "logStream" /\ error' = error ELSE Throw("postWebhook")
    /\ UNCHANGED <<invoked, exists, queued, deferred, delivered>>
    /\ UNCHANGED peer
    /\ UNCHANGED <<inputs, jobs, resolved, trigger, logEvents, outcome, ret>>

\* LogStream with the wait for the end of the stream left out.
LogStream_NoWait ==
    /\ pc = "logStream"
    /\ calls' = Append(calls, Call("build.logStream", jobName, NumStr(item[1].id), TRUE))
    /\ deferred' = "pending"
    /\ pc' = "get"
    /\ UNCHANGED <<invoked, exists, queued, delivered>>
    /\ UNCHANGED peer
    /\ UNCHANGED <<inputs, jobs, resolved, trigger, logEvents, outcome, sink, reports, clock,
                   ret, error>>

\* js.build.logStream(jobName, item.id) and the three listeners.
LogStream ==
    /\ pc = "logStream"
    /\ calls' = Append(calls, Call("build.logStream", jobName, NumStr(item[1].id), TRUE))
    /\ deferred' = "pending"
    /\ pc' = "await"
    /\ UNCHANGED <<invoked, exists, queued, delivered>>
    /\ UNCHANGED peer
    /\ UNCHANGED <<inputs, jobs, resolved, trigger, logEvents, outcome, sink, reports, clock,
                   ret, error>>

\* The chunk the stream delivers next, after the events it has delivered.
DataCount(events) == Cardinality({i \in DOMAIN events : events[i].event = "data"})

NextChunks(events) ==
    IF DataCount(events) < Len(LogLines) THEN {LogLines[DataCount(events) + 1]} ELSE LogTexts

\* LogData with the listener registered twice.
LogData_Twice ==
    /\ pc = "await"
    /\ logEvents < MaxLogEvents
    /\ \E text \in NextChunks(delivered) :
          /\ delivered' = Append(delivered, [event |-> "data", text |-> text])
          /\ sink' = sink \o << [fmt |-> text, args |-> << >>], [fmt |-> text, args |-> << >>] >>
    /\ logEvents' = logEvents + 1
    /\ UNCHANGED <<invoked, exists, queued, deferred>>
    /\ UNCHANGED peer
    /\ UNCHANGED <<inputs, jobs, pc, resolved, trigger, outcome, calls, reports, clock, ret,
                   error>>

\* log.on("data", ...)
LogData ==
    /\ pc = "await"
    /\ logEvents < MaxLogEvents
    /\ \E text \in NextChunks(delivered) :
          /\ delivered' = Append(delivered, [event |-> "data", text |-> text])
          /\ sink' = Append(sink, [fmt |-> text, args |-> << >>])
    /\ logEvents' = logEvents + 1
    /\ UNCHANGED <<invoked, exists, queued, deferred>>
    /\ UNCHANGED peer
    /\ UNCHANGED <<inputs, jobs, pc, resolved, trigger, outcome, calls, reports, clock, ret,
                   error>>

\* LogError with the error ending the wait.
LogError_Resolves ==
    /\ pc = "await"
    /\ logEvents < MaxLogEvents
    /\ \E err \in LogErrors :
          /\ delivered' = Append(delivered, [event |-> "error", text |-> err])
          /\ sink' = Append(sink, [fmt |-> "serializeResult", args |-> <<err>>])
    /\ logEvents' = logEvents + 1
    /\ deferred' = "resolved"
    /\ pc' = "get"
    /\ UNCHANGED <<invoked, exists, queued>>
    /\ UNCHANGED peer
    /\ UNCHANGED <<inputs, jobs, resolved, trigger, outcome, calls, reports, clock, ret,
                   error>>

\* LogError with the error also reported to the status backend.
LogError_Reports ==
    /\ pc = "await"
    /\ logEvents < MaxLogEvents
    /\ \E err \in LogErrors :
          /\ delivered' = Append(delivered, [event |-> "error", text |-> err])
          /\ sink' = Append(sink, [fmt |-> "serializeResult", args |-> <<err>>])
    /\ reports' = Append(reports, updateBuildStatus("error", GoalEvent, item[1].url,
                                                    item[1].id, WorkspaceId, clock))
    /\ calls' = Append(calls, Call("postWebhook", "", NumStr(item[1].id), TRUE))
    /\ clock' = clock + 1
    /\ logEvents' = logEvents + 1
    /\ UNCHANGED <<invoked, exists, queued, deferred>>
    /\ UNCHANGED peer
    /\ UNCHANGED <<inputs, jobs, pc, resolved, trigger, outcome, ret, error>>

\* log.on("error", ...)
LogError ==
    /\ pc = "await"
    /\ logEvents < MaxLogEvents
    /\ \E err \in LogErrors :
          /\ delivered' = Append(delivered, [event |-> "error", text |-> err])
          /\ sink' = Append(sink, [fmt |-> "serializeResult", args |-> <<err>>])
    /\ logEvents' = logEvents + 1
    /\ UNCHANGED <<invoked, exists, queued, deferred>>
    /\ UNCHANGED peer
    /\ UNCHANGED <<inputs, jobs, pc, resolved, trigger, outcome, calls, reports, clock, ret,
                   error>>

\* log.on("end", ...): deferred.resolve() ends the wait.
LogEnd ==
    /\ pc = "await"
    /\ deferred = "pending"
    /\ deferred' = "resolved"
    /\ pc' = "get"
    /\ UNCHANGED <<invoked, exists, queued, delivered>>
    /\ UNCHANGED peer
    /\ UNCHANGED <<inputs, jobs, resolved, trigger, logEvents, outcome, calls, sink, reports,
                   clock, ret, error>>

\* await js.build.get(jobName, item.id), the switch, and the completion block.
BuildGet ==
    /\ pc = "get"
    /\ \E code \in ResultCodes \union {"reject"} :
          /\ calls' = Append(calls, Call("build.get", jobName, NumStr(item[1].id),
                                         code # "reject"))
          /\ IF code = "reject"
             THEN Throw("build.get") /\ UNCHANGED <<outcome, sink>>
             ELSE /\ result' = << [result |-> code, url |-> ResultUrl] >>
                  /\ status' = MapStatus(code)
                  /\ state' = MapState(code)
                  /\ sink' = sink \o Block("Jenkins job '%s' completed with %s",
                                           <<jobName, state'>>)
                  /\ pc' = "report"
                  /\ error' = error
    /\ UNCHANGED <<invoked, exists, queued, deferred, delivered>>
    /\ UNCHANGED peer
    /\ UNCHANGED <<inputs, jobs, resolved, trigger, logEvents, reports, clock, ret>>

\* ReportTerminal with the build detail's url reported as the build's url.
ReportTerminal_ResultUrl ==
    /\ pc = "report"
    /\ reports' = Append(reports, updateBuildStatus(status, GoalEvent, result[1].url,
                                                    item[1].id, WorkspaceId, clock))
    /\ clock' = clock + 1
    /\ \E ok \in BOOLEAN :
          /\ calls' = Append(calls, Call("postWebhook", "", NumStr(item[1].id), ok))
          /\ IF ok
             THEN /\ ret' = << [state |-> state,
                                description |-> Description(jobName, status),
                                externalUrls |-> << [label |-> "Log", url |-> result[1].url] >>] >>
                  /\ pc' = "done"
                  /\ error' = error
             ELSE Throw("postWebhook") /\ ret' = ret
    /\ UNCHANGED <<invoked, exists, queued, deferred, delivered>>
    /\ UNCHANGED peer
    /\ UNCHANGED <<inputs, jobs, resolved, trigger, logEvents, outcome, sink>>

\* await updateBuildStatus(status, ...) and the result of the execution.
ReportTerminal ==
    /\ pc = "report"
    /\ reports' = Append(reports, updateBuildStatus(status, GoalEvent, item[1].url,
                                                    item[1].id, WorkspaceId, clock))
    /\ clock' = clock + 1
    /\ \E ok \in BOOLEAN :
          /\ calls' = Append(calls, Call("postWebhook", "", NumStr(item[1].id), ok))
          /\ IF ok
             THEN /\ ret' = << [state |-> state,
                                description |-> Description(jobName, status),
                                externalUrls |-> << [label |-> "Log", url |-> result[1].url] >>] >>
                  /\ pc' = "done"
                  /\ error' = error
             ELSE Throw("postWebhook") /\ ret' = ret
    /\ UNCHANGED <<invoked, exists, queued, deferred, delivered>>
    /\ UNCHANGED peer
    /\ UNCHANGED <<inputs, jobs, resolved, trigger, logEvents, outcome, sink>>

Next ==
    \/ ResolveServer
    \/ GetJobName
    \/ GetParameters
    \/ ResolveDefinition
    \/ JobExists
    \/ JobConfig
    \/ JobCreate
    \/ NotStarting
    \/ Starting
    \/ JobBuild
    \/ QueueItem
    \/ ReturnTriggered
    \/ AnnounceStarted
    \/ LogStream
    \/ LogData
    \/ LogError
    \/ LogEnd
    \/ BuildGet
    \/ ReportTerminal

Spec == Init /\ [][Next]_vars

\* One goal execution that keeps running: the registration names neither a job
\* nor parameters and carries the server, so every start reaches the workflow.
LiveInit ==
    /\ Init
    /\ registration.job = Absent
    /\ registration.parameters = Absent
    /\ registration.server # NoServer
    /\ configuration = NoServer

\* Every awaited call returns, so the continuation of each await runs, and the
\* log stream emits end.
Fairness == WF_vars(Next) /\ WF_vars(LogEnd)

LiveSpec == LiveInit /\ [][Next]_vars /\ Fairness

\* ------------------------------------------- two executions of the same goal
\* The second execution runs the same registration for the same repository, so
\* it resolves the same job name.
PeerName == getJobName(registration, GoalEvent, "undefined")

main == <<pc, resolved, trigger, logEvents, outcome, calls, sink, reports, clock, ret, error,
          invoked, exists, queued, deferred, delivered>>

\* The second execution: const exists = await js.job.exists(jobName)
PeerExists ==
    /\ peer.pc = "exists"
    /\ \E ok \in BOOLEAN :
          peer' = IF ok
                  THEN [peer EXCEPT !.exists = JobExistsAnswer(jobs, PeerName),
                                    !.pc = ExistsBranch(JobExistsAnswer(jobs, PeerName))]
                  ELSE [peer EXCEPT !.pc = "failed", !.error = "job.exists"]
    /\ UNCHANGED <<inputs, jobs, main>>

\* The second execution: await js.job.config(jobName, definition)
PeerConfig ==
    /\ peer.pc = "config"
    /\ \E ok \in BOOLEAN :
          peer' = IF ok THEN [peer EXCEPT !.pc = "done"]
                        ELSE [peer EXCEPT !.pc = "failed", !.error = "job.config"]
    /\ UNCHANGED <<inputs, jobs, main>>

\* The second execution: await js.job.create(jobName, definition)
PeerCreate ==
    /\ peer.pc = "create"
    /\ \E ok \in CreateOutcomes(jobs, PeerName) :
          /\ peer' = IF ok THEN [peer EXCEPT !.pc = "done"]
                           ELSE [peer EXCEPT !.pc = "failed", !.error = "job.create"]
          /\ jobs' = IF ok THEN jobs \union {PeerName} ELSE jobs
    /\ UNCHANGED <<inputs, main>>

\* Both executions carry a definition for a job the server does not have yet;
\* the second one is about to ask the server whether the job exists.
RaceInit ==
    /\ variant \in Variants
    /\ registration \in {r \in Registrations : /\ r.job.kind # "function"
                                               /\ r.parameters = Absent
                                               /\ r.definition.kind = "string"
                                               /\ r.server # NoServer}
    /\ configuration = NoServer
    /\ jobs = {}
    /\ Fresh
    /\ peer = [PeerIdle EXCEPT !.pc = "exists"]

RaceNext ==
    \/ Next
    \/ PeerExists
    \/ PeerConfig
    \/ PeerCreate

RaceSpec == RaceInit /\ [][RaceNext]_vars

\* ------------------------------------------------------ the progress reporter
\* A text is held as its pieces, cut so that every literal of a progress test is
\* a whole number of pieces; "%s" and "%j" are the placeholders of a format.
Pieces(fmt) ==
    CASE fmt = "Starting Jenkins job '%s' with parameters '%j'" ->
            <<"Starting ", "Jenkins job", " '", "%s", "' ", "with parameters '", "%j", "'">>
      [] fmt = "Not starting Jenkins job '%s'" ->
            <<"Not ", "starting ", "Jenkins job", " '", "%s", "'">>
      [] fmt = "Jenkins job '%s' started with build id '%s'" ->
            <<"Jenkins job", " '", "%s", "' ", "started", " with build id '", "%s", "'">>
      [] fmt = "Jenkins job '%s' started with queue id '%s'" ->
            <<"Jenkins job", " '", "%s", "' ", "started", " with queue id '", "%s", "'">>
      [] fmt = "Jenkins job '%s' completed with %s" ->
            <<"Jenkins job", " '", "%s", "' ", "completed with", " ", "%s">>
      [] fmt = "Updating definition of Jenkins job '%s'" ->
            <<"Updating definition of ", "Jenkins job", " '", "%s", "'">>
      [] fmt = "Not updating definition of Jenkins job '%s' as no definition was provided." ->
            <<"Not updating definition of ", "Jenkins job", " '", "%s", "' ",
              "as no definition was provided.">>
      [] fmt = "Not updating definition of Jenkins job '%s'" ->
            <<"Not updating definition of ", "Jenkins job", " '", "%s", "'">>
      [] fmt = "[Pipeline] { (Build)" -> <<"[Pipeline] { (", "Build", ")">>
      [] fmt = "serializeResult" -> <<"%s">>
      [] OTHER -> <<fmt>>

\* progressLog.write(fmt, ...args): each placeholder takes the next argument.
RECURSIVE Fill(_, _)
Fill(ps, args) ==
    IF ps = << >> THEN << >>
    ELSE IF Head(ps) \in {"%s", "%j"} /\ args # << >>
         THEN <<Head(args)>> \o Fill(Tail(ps), Tail(args))
         ELSE <<Head(ps)>> \o Fill(Tail(ps), args)

Format(l) == Fill(Pieces(l.fmt), l.args)

\* The i flag of the tests: pieces are compared in lower case.
Fold(t) == IF t = "Starting " THEN "starting " ELSE t

\* JenkinsProgressTests: each regular expression as its pieces, ".*" a wildcard.
\* The optional "Declarative: " of the third test is left out: no chunk of
\* LogLines carries it.
JenkinsProgressTests ==
    << [test |-> <<"Starting ", "Jenkins job">>, phase |-> "queued"],
       [test |-> <<"Jenkins job", " '", ".*", "' ", "started">>, phase |-> "started"],
       [test |-> <<"[Pipeline] { (", ".*", ")">>, phase |-> "$1"],
       [test |-> <<"Jenkins job", " '", "%s", "' ", "complated with">>, phase |-> "completed"] >>

\* The test, from its piece i on, matches the text from its piece j on.
RECURSIVE MatchFrom(_, _, _, _)
MatchFrom(test, i, text, j) ==
    IF i > Len(test) THEN TRUE
    ELSE IF test[i] = ".*"
         THEN \E k \in j..(Len(text) + 1) : MatchFrom(test, i + 1, text, k)
         ELSE /\ j <= Len(text)
              /\ Fold(text[j]) = Fold(test[i])
              /\ MatchFrom(test, i + 1, text, j + 1)

\* RegExp.test: the expression matches somewhere in the text.
Matches(test, text) == \E j \in 1..Len(text) : MatchFrom(test, 1, text, j)

\* The first group of a match: what the wildcard stands for.
Group(test, text) ==
    LET j == CHOOSE j \in 1..Len(text) : MatchFrom(test, 1, text, j)
    IN text[j + 1]

\* testProgressReporter(...JenkinsProgressTests): the phase of the first test
\* that matches the log text, "undefined" when none does.
JenkinsProgressReporter(text) ==
    LET hits == {k \in DOMAIN JenkinsProgressTests :
                    Matches(JenkinsProgressTests[k].test, text)}
    IN IF hits = {} THEN "undefined"
       ELSE LET k == CHOOSE h \in hits : \A o \in hits : h <= o
            IN IF JenkinsProgressTests[k].phase = "$1"
               THEN Group(JenkinsProgressTests[k].test, text)
               ELSE JenkinsProgressTests[k].phase

\* ------------------------------------------------------------- the claims
Issued(op) == \E i \in DOMAIN calls : calls[i].op = op

\* js.job.build has answered with an acknowledgment that is no queue id.
InvalidAck == isNaN(build) /\ \E i \in DOMAIN calls : calls[i].op = "job.build" /\ calls[i].ok

TerminalPhases == {"passed", "failed", "canceled", "error"}
Phases == {"started"} \union TerminalPhases
MappedCodes == {"SUCCESS", "ABORTED", "FAILURE"}

\* C1: with convergeOnly = true no build-trigger call and no queue lookup is ever
\* issued, and an execution that ends without an error has returned state success
\* with the description 'Jenkins <job> converged'.
C1_ConvergeOnlyNeverTriggers ==
    registration.convergeOnly = "true" =>
        /\ ~Issued("job.build")
        /\ ~Issued("queue.item")
        /\ pc \notin {"build", "poll", "triggered", "started"}
        /\ pc = "done" =>
              /\ ret # << >>
              /\ ret[1].state = "success"
              /\ ret[1].description = <<"Jenkins ", "(bq)", jobName, "(bq)", " ", "converged">>

C1_Witness ==
    /\ registration.convergeOnly = "true"
    /\ registration.definition.kind = "string"
    /\ Issued("job.create")
    /\ pc = "done"

\* C2: after an invalid/NaN acknowledgment of the build trigger, triggerJob returns
\* absent (no Build Reference) and no queue-item lookup is issued, in both
\* goal-execution files.
C2_InvalidAckNeverPolls ==
    InvalidAck => ~Issued("queue.item") /\ item = << >>

\* C3: after an invalid acknowledgment the execution does not fail, its result is
\* state success with description 'Jenkins <job> triggered', and it opens no log
\* stream, fetches no build detail and issues no Status Reporter call.
C3_InvalidAckReportsTriggered ==
    InvalidAck =>
        /\ pc # "failed"
        /\ pc = "done" =>
              /\ ret # << >>
              /\ ret[1].state = "success"
              /\ ret[1].description = <<"Jenkins ", "(bq)", jobName, "(bq)", " ", "triggered">>
        /\ ~Issued("build.logStream")
        /\ ~Issued("build.get")
        /\ ~Issued("postWebhook")
        /\ reports = << >>

\* C4: SUCCESS maps to passed/success, ABORTED to canceled/stopped, FAILURE to
\* failed/failure; the terminal status report carries the mapped status, and so
\* does the returned description, next to the mapped state.
C4_OutcomeMapping ==
    result # << >> =>
        LET code == result[1].result IN
        /\ code = "SUCCESS" => status = "passed" /\ state = "success"
        /\ code = "ABORTED" => status = "canceled" /\ state = "stopped"
        /\ code = "FAILURE" => status = "failed" /\ state = "failure"
        /\ Len(reports) >= 2 => reports[Len(reports)].status = status
        /\ ret # << >> =>
              /\ ret[1].state = state
              /\ ret[1].description = <<"Jenkins ", "(bq)", jobName, "(bq)", " ", status>>
              /\ ret[1].externalUrls = << [label |-> "Log", url |-> result[1].url] >>

C4_Witness ==
    /\ pc = "done"
    /\ result # << >>
    /\ result[1].result = "ABORTED"
    /\ Len(reports) = 2
    /\ reports[2].status = "canceled"

\* C5: for a result code other than SUCCESS, ABORTED and FAILURE the execution
\* never returns goal state success and never reports status passed.
C5_UnknownCodeNotSuccess ==
    (result # << >> /\ result[1].result \notin MappedCodes) =>
        /\ state # "success"
        /\ status # "passed"
        /\ ret # << >> => ret[1].state # "success"
        /\ \A i \in DOMAIN reports : reports[i].status # "passed"

C5_Witness ==
    /\ pc = "done"
    /\ result # << >>
    /\ result[1].result = "UNSTABLE"
    /\ Len(reports) = 2

\* C6: every document handed to the Status Reporter carries a phase among
\* started, passed, failed, canceled, error, whatever the result code.
C6_ReportPhaseInVocabulary ==
    \A i \in DOMAIN reports : reports[i].status \in Phases

\* C7: a status report that is not the started report is preceded by a started
\* report for the same build number and build URL.
C7_StartedPrecedesTerminal ==
    \A i \in DOMAIN reports :
        reports[i].status # "started" =>
            \E j \in 1..(i - 1) :
                /\ reports[j].status = "started"
                /\ reports[j].number = reports[i].number
                /\ reports[j].build_url = reports[i].build_url

C7_Witness ==
    /\ Len(reports) = 2
    /\ reports[2].status = "failed"

\* C8: no execution issues more than two Status Reporter calls, and an execution
\* that obtained a Build Reference and returned a result issued exactly two: the
\* started report, then one report that is not a started report, both for that
\* Build Reference.
C8_ExactlyTwoReports ==
    /\ Len(reports) <= 2
    /\ Cardinality({i \in DOMAIN calls : calls[i].op = "postWebhook"}) = Len(reports)
    /\ (item # << >> /\ ret # << >>) =>
          /\ Len(reports) = 2
          /\ reports[1].status = "started"
          /\ reports[2].status # "started"
          /\ \A i \in {1, 2} :
                reports[i].number = item[1].id /\ reports[i].build_url = item[1].url

C8_Witness ==
    /\ item # << >>
    /\ ret # << >>
    /\ logEvents = MaxLogEvents
    /\ result[1].result = "SUCCESS"

WebhookFailed(i) == calls[i].op = "postWebhook" /\ ~calls[i].ok

\* C9, as claimed: a failed Status Reporter webhook call does not abort the
\* execution.
C9_WebhookFailureDoesNotAbort ==
    \A i \in DOMAIN calls : WebhookFailed(i) => pc # "failed"

\* C9, amended: a failed Status Reporter webhook call aborts the execution: the
\* error propagates, no result is returned and no remote call follows it.
C9_WebhookFailureAborts ==
    \A i \in DOMAIN calls :
        WebhookFailed(i) =>
            /\ i = Len(calls)
            /\ pc = "failed"
            /\ error = "postWebhook"
            /\ ret = << >>

C9_Witness ==
    /\ calls # << >>
    /\ WebhookFailed(Len(calls))
    /\ Len(reports) = 1
    /\ pc = "failed"

\* C10: a started report has started_at populated and finished_at absent; any
\* other report has finished_at populated and started_at absent.
C10_ExactlyOneTimestamp ==
    \A i \in DOMAIN reports :
        IF reports[i].status = "started"
        THEN reports[i].started_at # << >> /\ reports[i].finished_at = << >>
        ELSE reports[i].finished_at # << >> /\ reports[i].started_at = << >>

C10_Witness ==
    /\ Len(reports) = 2
    /\ reports[1].status = "started"
    /\ reports[2].status = "undefined"

\* C11: with a string definition, create is called only after the existence check
\* reported the job absent and update (config) only after it reported the job
\* present, the matching call is the one issued next, and never both are issued.
C11_CreateOrUpdateNeverBoth ==
    registration.definition.kind = "string" =>
        /\ Issued("job.create") => exists = "false"
        /\ Issued("job.config") => exists = "true"
        /\ ~(Issued("job.create") /\ Issued("job.config"))
        /\ exists = "false" => pc = "create" \/ Issued("job.create")
        /\ exists = "true" => pc = "config" \/ Issued("job.config")
        /\ Cardinality({i \in DOMAIN calls : calls[i].op \in {"job.create", "job.config"}}) <= 1

C11_Witness ==
    /\ registration.definition.kind = "string"
    /\ exists = "false"
    /\ Issued("job.create")
    /\ pc = "done"

ServerFields == {"url", "user", "password"}

\* The merged server configuration has no url.
MissingUrl ==
    IF configuration.url # "undefined" THEN FALSE ELSE registration.server.url = "undefined"

\* C12: when the resolved server configuration has no url, the execution aborts
\* with the configuration error, having issued no remote call, posted no status
\* report and written nothing to the progress sink.
C12_MissingUrlAbortsFirst ==
    (MissingUrl /\ pc # "start") =>
        /\ pc = "failed"
        /\ error = "Jenkins server configuration incomplete"
        /\ calls = << >>
        /\ reports = << >>
        /\ sink = << >>
        /\ invoked = << >>
        /\ ret = << >>

C12_Witness == MissingUrl /\ pc = "failed"

\* C13: a url, user or password given in the registration is the one used to
\* connect, even when the process-wide configuration defines the field too.
C13_RegistrationServerWins ==
    pc # "start" =>
        \A f \in ServerFields :
            registration.server[f] # "undefined" => server[f] = registration.server[f]

IsJobInvocation(x) == x.fn = "job"
JobInvocations == SelectSeq(invoked, IsJobInvocation)

\* getJobName has returned a name.
JobNameResolved ==
    /\ pc \notin {"start", "getJobName"}
    /\ error \notin {"Jenkins server configuration incomplete", "job"}

NamedOps == {"job.exists", "job.config", "job.create", "job.build", "build.logStream", "build.get"}

C15_NoNameFallsBackToRepo ==
    JobNameResolved =>
        /\ registration.job.kind = "absent" => jobName = "app"
        /\ (registration.job.kind = "function" /\ JobInvocations[1].result \in {"undefined", ""})
              => jobName = "app"

Indices(op) == {i \in DOMAIN calls : calls[i].op = op}

\* A queue-item answer that carries an executable with a build number.
CarriesNumber(q) == q.item /\ q.executable /\ q.number # 0

C16_State ==
    /\ polls = Cardinality(Indices("queue.item"))
    /\ \A i \in Indices("queue.item") : calls[i].id = build
    /\ item # << >> =>
          /\ polls >= 1
          /\ CarriesNumber(queued)
          /\ item[1] = [id |-> queued.number, url |-> queued.url]
    /\ CarriesNumber(queued) => item # << >> /\ pc # "poll"
    /\ (pc = "poll" /\ polls > 0) => ~CarriesNumber(queued)

\* C16: the lookups that carry no build number are each followed by another
\* lookup, the first lookup that carries one is the last lookup issued (N lookups
\* for the Nth answer), and the Build Reference returned is that answer's
\* executable number and url.
C16_ExactlyNPolls ==
    /\ []C16_State
    /\ [][CarriesNumber(queued) => (polls' = polls /\ item' = item /\ queued' = queued)]_vars
    /\ [][(polls' = polls + 1 /\ error' = error /\ ~CarriesNumber(queued')) => pc' = "poll"]_vars

C16_Witness ==
    /\ polls = 3
    /\ item # << >>
    /\ item[1].id = 7
    /\ pc = "done"

ReconcileOps == {"job.exists", "job.config", "job.create"}

\* The progress-log lines that close the Definition Reconciler.
ReconcileLines ==
    {"Updating definition of Jenkins job '%s'",
     "Not updating definition of Jenkins job '%s' as no definition was provided.",
     "Not updating definition of Jenkins job '%s'"}

ReconcilerDone == \E k \in DOMAIN sink : sink[k].fmt \in ReconcileLines

\* C17: the build trigger is issued only after the Definition Reconciler has
\* completed or no-oped, and after every reconciliation call; the started report
\* and the log stream come only after the Build Reference exists, and after every
\* queue lookup; the build-detail fetch is issued only once the end signal has
\* resolved the wait.
C17_Ordering ==
    /\ Issued("job.build") =>
          /\ ReconcilerDone
          /\ registration.definition.kind # "absent" =>
                \E i \in Indices("job.config") \union Indices("job.create") : calls[i].ok
    /\ \A i \in DOMAIN calls, j \in Indices("job.build") :
          calls[i].op \in ReconcileOps => i < j
    /\ (Issued("postWebhook") \/ Issued("build.logStream") \/ reports # << >>) => item # << >>
    /\ \A i \in Indices("queue.item"), j \in DOMAIN calls :
          calls[j].op \in {"postWebhook", "build.logStream", "build.get"} => i < j
    /\ \A i \in Indices("job.build"), j \in Indices("queue.item") : i < j
    /\ deferred # "none" <=> Issued("build.logStream")
    /\ Issued("build.get") => deferred = "resolved"
    /\ \A i \in Indices("build.logStream"), j \in Indices("build.get") : i < j
    /\ pc \in {"get", "report"} => deferred = "resolved"

C17_Witness ==
    /\ registration.definition.kind = "function"
    /\ Issued("job.create")
    /\ Issued("build.get")
    /\ logEvents = 2
    /\ pc = "done"

C18_State ==
    /\ Cardinality(Indices("job.build")) <= 1
    /\ reports # << >> => item # << >>
    /\ item # << >> =>
          /\ \A i \in DOMAIN reports :
                reports[i].number = item[1].id /\ reports[i].build_url = item[1].url
          /\ \A i \in DOMAIN calls :
                calls[i].op \in {"postWebhook", "build.logStream", "build.get"}
                   => calls[i].id = NumStr(item[1].id)

\* C18: an execution issues at most one build-trigger call; its Build Reference,
\* once produced, never changes; and the started report, the log stream, the
\* build-detail fetch and the terminal report all carry that Build Reference.
C18_OneBuildReference ==
    /\ []C18_State
    /\ [][item # << >> => item' = item]_vars
    /\ [][Issued("job.build") => build' = build]_vars

C18_Witness ==
    /\ item # << >>
    /\ polls = 2
    /\ Len(reports) = 2
    /\ Issued("build.get")
    /\ pc = "done"

IsErrorEvent(e) == e.event = "error"
IsDataEvent(e) == e.event = "data"
IsErrorLine(l) == l.fmt = "serializeResult"
IsDataLine(l) == l.fmt \in LogTexts
ErrorEvents(events) == SelectSeq(events, IsErrorEvent)
DataEvents(events) == SelectSeq(events, IsDataEvent)

C19_State ==
    /\ deferred = "pending" =>
          /\ pc = "await"
          /\ ~Issued("build.get")
          /\ result = << >>
          /\ Len(reports) <= 1
          /\ ret = << >>
    /\ LET lines == SelectSeq(sink, IsErrorLine)
           errs == ErrorEvents(delivered)
       IN /\ Len(lines) = Len(errs)
          /\ \A k \in DOMAIN lines : lines[k].args = <<errs[k].text>>

\* C19: every error event of the log stream is written to the progress sink, and
\* the step that delivers it neither resolves the wait nor fails or ends the
\* execution, nor issues a call; while the wait is unresolved no build detail is
\* fetched, no terminal status is reported and nothing is returned.
C19_StreamErrorsDoNotEndWait ==
    /\ []C19_State
    /\ [][Len(ErrorEvents(delivered')) > Len(ErrorEvents(delivered)) =>
             /\ pc' = pc
             /\ deferred' = deferred
             /\ error' = error
             /\ ret' = ret
             /\ calls' = calls
             /\ reports' = reports
             /\ Len(sink') = Len(sink) + 1]_vars

C19_Witness ==
    /\ Len(ErrorEvents(delivered)) = 2
    /\ pc = "done"

StartedLines ==
    {"Jenkins job '%s' started with build id '%s'", "Jenkins job '%s' started with queue id '%s'"}
CompletedLine == "Jenkins job '%s' completed with %s"

\* C20: the data lines of the progress sink are the chunks the stream delivered,
\* each once and in the order of delivery; each lies after the closing marker of
\* the started block and before the opening marker of the completion block.
C20_DataChunksInOrder ==
    /\ LET lines == SelectSeq(sink, IsDataLine)
           data == DataEvents(delivered)
       IN /\ Len(lines) = Len(data)
          /\ \A k \in DOMAIN lines : lines[k].fmt = data[k].text /\ lines[k].args = << >>
    /\ \A i \in DOMAIN sink :
          IsDataLine(sink[i]) =>
              /\ \E b \in 1..(i - 2) :
                    sink[b].fmt \in StartedLines /\ sink[b + 1].fmt = "\\--"
              /\ \A c \in DOMAIN sink : sink[c].fmt = CompletedLine => i < c - 1

C20_Witness ==
    /\ Len(DataEvents(delivered)) = 2
    /\ \E c \in DOMAIN sink : sink[c].fmt = CompletedLine
    /\ pc = "done"

\* The calls of the workflow to the remote Jenkins server.
RemoteOps == {"job.exists", "job.create", "job.config", "job.build", "queue.item", "build.get"}

RemoteFailed(i) == calls[i].op \in RemoteOps /\ ~calls[i].ok

\* C21: a failed existence check, create, update, trigger, queue lookup or
\* build-detail fetch is the last call the execution issues (nothing follows it
\* and it is not issued again), the execution has failed with that call's error
\* and has returned no result.
C21_RemoteErrorIsFatal ==
    \A i \in DOMAIN calls :
        RemoteFailed(i) =>
            /\ i = Len(calls)
            /\ \A j \in DOMAIN calls : RemoteFailed(j) => j = i
            /\ pc = "failed"
            /\ error = calls[i].op
            /\ ret = << >>

C21_Witness ==
    /\ Len(calls) >= 5
    /\ calls[Len(calls)].op = "queue.item"
    /\ ~calls[Len(calls)].ok
    /\ calls[Len(calls) - 1].op = "queue.item"
    /\ pc = "failed"

NoDefinition == registration.definition.kind = "absent"

\* C22: when the registration supplies no definition, no existence check, create
\* or update is ever issued and no step changes the job set of the server; the
\* Definition Reconciler step only writes its progress block and the execution
\* goes on: unless convergeOnly is true its next step starts the trigger.
C22_NoDefinitionNoOp ==
    /\ [](NoDefinition =>
             /\ \A op \in ReconcileOps : ~Issued(op)
             /\ exists = "undefined"
             /\ definition = "undefined")
    /\ [][NoDefinition => jobs' = jobs]_vars
    /\ [][(NoDefinition /\ pc = "createOrUpdateJob") =>
             /\ pc' = "convergeOnly"
             /\ calls' = calls
             /\ error' = error
             /\ ret' = ret]_vars
    /\ [][(NoDefinition /\ pc = "convergeOnly" /\ registration.convergeOnly # "true") =>
             pc' = "build"]_vars

C22_Witness ==
    /\ NoDefinition
    /\ jobs = JobNames
    /\ Issued("job.build")
    /\ Issued("build.get")
    /\ pc = "done"

Returned == pc = "done" /\ ret # << >>

\* The loop of triggerJob is still asking and its last answer carries no number.
NeverExposed == pc = "poll" /\ ~CarriesNumber(queued)

\* C23: when every call returns and the log stream ends, an execution either
\* returns a result, or has thrown an error, or stays in the loop of triggerJob
\* for ever because the queue item never exposes a build number; the loop is
\* left only by a lookup that answers with a build number or that fails, never
\* on its own count, and while it is not left nothing is returned.
C23_ReturnsUnlessNeverExposed ==
    /\ <>Returned \/ <>(pc = "failed") \/ <>[]NeverExposed
    /\ [][(pc = "poll" /\ pc' # "poll") =>
             \/ CarriesNumber(queued') /\ pc' = "started"
             \/ error' = "queue.item" /\ pc' = "failed"]_vars
    /\ [](pc = "poll" => ret = << >>)

C23_Witness ==
    /\ Returned
    /\ polls >= 2
    /\ deferred = "resolved"
    /\ Issued("build.get")

\* The step issues js.job.create from the first execution.
IssuesCreate == calls' # calls /\ calls'[Len(calls')].op = "job.create"

\* C24: whatever the interleaving of two executions that reconcile the same,
\* initially absent job with a definition, either execution issues a create call
\* only for a job the server does not have at that moment, so that no create
\* call is refused, and no execution fails, because the other has created the job.
C24_ConcurrentReconcileIndependent ==
    /\ [][IssuesCreate => jobName \notin jobs]_vars
    /\ [][(peer.pc = "create" /\ peer'.pc # "create") => PeerName \notin jobs]_vars

StartingLine == "Starting Jenkins job '%s' with parameters '%j'"

\* C25: the progress reporter gives phase queued for every trigger announcement
\* in the progress sink, phase started for every started announcement and phase
\* completed for every completion announcement.
C25_AnnouncementsDetected ==
    \A i \in DOMAIN sink :
        /\ sink[i].fmt = StartingLine => JenkinsProgressReporter(Format(sink[i])) = "queued"
        /\ sink[i].fmt \in StartedLines => JenkinsProgressReporter(Format(sink[i])) = "started"
        /\ sink[i].fmt = CompletedLine => JenkinsProgressReporter(Format(sink[i])) = "completed"

IsMarker(l) == l.fmt \in {"/--", "\\--"}
IsStreamLine(l) == IsDataLine(l) \/ IsErrorLine(l)
IsAnnouncement(l) == ~IsMarker(l) /\ ~IsStreamLine(l)

\* C26: in the progress sink every opening marker is followed by one phase
\* content line and then by a closing marker, every closing marker closes the
\* opening marker two writes before it, every phase content line stands between
\* the two markers, and no data or error text of the log stream stands right
\* after an opening marker; this holds after every step, so also when the
\* execution returns or throws.
C26_AnnouncementsFramed ==
    \A i \in DOMAIN sink :
        /\ sink[i].fmt = "/--" =>
              /\ i + 2 <= Len(sink)
              /\ IsAnnouncement(sink[i + 1])
              /\ sink[i + 2].fmt = "\\--"
        /\ sink[i].fmt = "\\--" => i > 2 /\ sink[i - 2].fmt = "/--"
        /\ IsAnnouncement(sink[i]) =>
              /\ i > 1 /\ sink[i - 1].fmt = "/--"
              /\ i < Len(sink) /\ sink[i + 1].fmt = "\\--"
        /\ IsStreamLine(sink[i]) =>
              /\ i > 1 /\ sink[i - 1].fmt # "/--"
              /\ i < Len(sink) => sink[i + 1].fmt # "\\--"

C26_Witness ==
    /\ pc = "done"
    /\ \E i \in 2..(Len(sink) - 2) :
          /\ sink[i - 1].fmt = "\\--"
          /\ IsErrorLine(sink[i])
          /\ IsDataLine(sink[i + 1])
          /\ sink[i + 2].fmt = "/--"

====
